---- MODULE Spec2Model ----
(***************************************************************************)
(* CustomAdam (src/CustomAdam.py): the constructor's validation of the     *)
(* hyperparameters and step(), the in-place Adam update over the           *)
(* parameter groups, with the optimizer's state dictionary                 *)
(* (state["step"], state["first_moment_estimate"],                         *)
(* state["second_moment_estimate"]).                                       *)
(*                                                                         *)
(* Tensors are sequences of fixed-point numbers (an element x stands for   *)
(* x / Scale); the absent tensor (None, or the empty dict the state        *)
(* dictionary hands out for a key never written) is the empty sequence.    *)
(***************************************************************************)
EXTENDS Integers, Sequences, FiniteSets, TLC

\* ------------------------------------------------------------- bounds
\* Resolution of the fixed-point numbers: x stands for x / Scale.
Scale == 100
\* step() is called at most MaxSteps times.
MaxSteps == 2

\* ------------------------------------------------- fixed-point numbers
One == Scale
\* The value a float operation yields when it has no number to yield.
NaN == 0 - (Scale * Scale * Scale * Scale)

Abs(x) == IF x < 0 THEN 0 - x ELSE x
\* Integer quotient rounded toward zero.
Quot(a, b) ==
    IF (a < 0) = (b < 0) THEN Abs(a) \div Abs(b) ELSE 0 - (Abs(a) \div Abs(b))

FAdd(a, b) == IF a = NaN \/ b = NaN THEN NaN ELSE a + b
FMul(a, b) == IF a = NaN \/ b = NaN THEN NaN ELSE Quot(a * b, Scale)
FDiv(a, b) == IF a = NaN \/ b = NaN \/ b = 0 THEN NaN ELSE Quot(a * Scale, b)

RECURSIVE SqrtSearch(_, _, _)
\* The largest r in lo..hi with r * r <= n (lo * lo <= n).
SqrtSearch(n, lo, hi) ==
    IF lo >= hi THEN lo
    ELSE LET mid == (lo + hi + 1) \div 2
         IN IF mid * mid <= n THEN SqrtSearch(n, mid, hi)
            ELSE SqrtSearch(n, lo, mid - 1)
ISqrt(n) == SqrtSearch(n, 0, IF n < 46340 THEN n ELSE 46340)
FSqrt(a) == IF a = NaN \/ a < 0 THEN NaN ELSE ISqrt(a * Scale)

RECURSIVE FPow(_, _)
\* b ** t for a step counter t >= 0.
FPow(b, t) == IF t = 0 THEN One ELSE FMul(b, FPow(b, t - 1))

\* ------------------------------------------------------------ tensors
NoTensor == << >>
Zeros(n) == [i \in 1..n |-> 0]
Filled(n, x) == [i \in 1..n |-> x]
\* Element i of t once t is broadcast to a longer tensor.
At(t, i) == IF Len(t) = 1 THEN t[1] ELSE t[i]
\* An in-place binary operation self.op_(other) needs other to broadcast to
\* self's shape.
Fits(self, other) == Len(other) = Len(self) \/ Len(other) = 1
TMulS(t, s) == [i \in DOMAIN t |-> FMul(t[i], s)]
TDivS(t, s) == [i \in DOMAIN t |-> FDiv(t[i], s)]
TAddS(t, s) == [i \in DOMAIN t |-> FAdd(t[i], s)]
TAdd(self, other) == [i \in DOMAIN self |-> FAdd(self[i], At(other, i))]
TDiv(self, other) == [i \in DOMAIN self |-> FDiv(self[i], At(other, i))]
TPow2(t) == [i \in DOMAIN t |-> FMul(t[i], t[i])]
TSqrt(t) == [i \in DOMAIN t |-> FSqrt(t[i])]

\* ------------------------------------------------------- the program
\* The parameters a model may hand over, and the shape (length) of each.
ParamIds == {1, 2, 3}
Shape(p) == IF p = 2 THEN 2 ELSE 1
\* The values of the parameter tensors when the optimizer is constructed.
InitData(p) == IF p = 2 THEN <<2 * One, 0 - One>> ELSE <<p * One>>

HyperNames == {"stepsize", "bias_m1", "bias_m2", "epsilon", "bias_correction"}
NoOverrides == [k \in {} |-> 0]

\* What a caller may pass to the constructor.
StepSizes == {0 - One, 0, One \div 2}
Biases1 == {0 - (One \div 2), One \div 2}
Biases2 == {0 - (One \div 4), (3 * One) \div 4}
Epsilons == {One \div 50}
CtorArgs ==
    [stepsize : StepSizes, bias_m1 : Biases1, bias_m2 : Biases2,
     epsilon : Epsilons, bias_correction : BOOLEAN]
\* params: a flat list of parameters (one implicit group) or a list of groups,
\* a group being its parameters and the hyperparameters it sets itself.
ParamLists ==
    { << [params |-> <<1>>, own |-> NoOverrides] >>,
      << [params |-> <<1, 2>>, own |-> NoOverrides] >>,
      << [params |-> <<2, 1>>, own |-> NoOverrides] >>,
      << [params |-> <<1>>, own |-> NoOverrides],
         [params |-> <<3>>, own |-> [stepsize |-> One]] >> }
\* What backward() may leave in a gradient of length n; None is NoTensor.
GradValues == {0 - One, 2 * One}
Grads(n) == {NoTensor} \cup {Filled(n, x) : x \in GradValues}
\* The closures a caller may pass to step(): none, or one returning a loss.
Closures == { [given |-> FALSE, loss |-> NoTensor],
              [given |-> TRUE, loss |-> <<5 * One>>] }

VARIABLES
    pc,            \* "new", "invalid" (the constructor raised), "ready"
    args,          \* the hyperparameters the constructor was called with
    defaults,      \* self.defaults
    param_groups,  \* self.param_groups: <<[params, hp]>>
    opt,           \* the tensors and self.state: [data, grad, state], with the
                   \* record of what each step() did: [hist, log, raised]
    calls,         \* the number of step() calls made
    last,          \* the last step() call: its arguments, what it saw, its result
    solo           \* the same run of an optimizer that holds parameter 1 alone

vars == <<pc, args, defaults, param_groups, opt, calls, last, solo>>

RECURSIVE ParamsOf(_)
\* The parameters of a list of groups, in iteration order.
ParamsOf(groups) ==
    IF groups = << >> THEN << >>
    ELSE Head(groups).params \o ParamsOf(Tail(groups))
Range(s) == {s[i] : i \in DOMAIN s}

\* ---- __init__ (lines 20-31)
InvalidStepsize(a) == a.stepsize < 0
\* The bias check with the flag applied to both coefficients.
InvalidBiasBothGated(a) ==
    (a.bias_m1 < 0 \/ a.bias_m2 < 0) /\ a.bias_correction
InvalidBias(a) == a.bias_m1 < 0 \/ (a.bias_m2 < 0 /\ a.bias_correction)
MakeDefaults(a) ==
    [stepsize |-> a.stepsize, bias_m1 |-> a.bias_m1, bias_m2 |-> a.bias_m2,
     epsilon |-> a.epsilon, bias_correction |-> a.bias_correction]
\* Optimizer.__init__: every group takes the defaults it does not set itself.
GroupHyper(own, dflt) ==
    [k \in HyperNames |-> IF k \in DOMAIN own THEN own[k] ELSE dflt[k]]
MakeGroups(list, dflt) ==
    [i \in DOMAIN list |->
        [params |-> list[i].params, hp |-> GroupHyper(list[i].own, dflt)]]
EmptyState ==
    [step |-> 0, first_moment_estimate |-> NoTensor,
     second_moment_estimate |-> NoTensor]
NoHist ==
    [inits |-> 0, reads |-> 0, updates |-> 0, firstFme |-> NoTensor,
     firstSme |-> NoTensor]
NewOpt(ps) ==
    [data |-> [p \in ps |-> InitData(p)],
     grad |-> [p \in ps |-> NoTensor],
     state |-> EmptyState,
     hist |-> [p \in ps |-> NoHist],
     log |-> << >>,
     raised |-> "none"]
NoCall ==
    [closure |-> [given |-> FALSE, loss |-> NoTensor], closureCalls |-> 0,
     seenStep |-> 0, seenData |-> << >>, before |-> NewOpt({}),
     gradAfter |-> << >>, ret |-> NoTensor]
\* The constructor has not been called yet.
NoArgs ==
    [stepsize |-> 0, bias_m1 |-> 0, bias_m2 |-> 0, epsilon |-> 0,
     bias_correction |-> FALSE]

\* ---- step (lines 34-79)
\* Line 38: the loss is the closure's value, or None.
Loss(closure) == IF closure.given THEN closure.loss ELSE NoTensor
\* Lines 40-43: the step counter; a key never written reads as empty, which
\* counts as not set.
\* The counter written with "=+ 1" instead of "+= 1".
IncStepAssign(t) == 1
IncStep(t) == IF t = 0 THEN 1 ELSE t + 1
\* Lines 50-53: param.grad.data, read on a gradient that is None.
HasNoGrad(g) == g = NoTensor
\* Line 55: the moment tensors are set to zeros when the counter is 1.
IsFirstStep(t) == t = 1
\* Line 63: mul_ in place, before add_ is tried.
FirstMomentScaled(m, hp) == TMulS(m, hp.bias_m1)
FirstMoment(m, g, hp) ==
    TAdd(FirstMomentScaled(m, hp), TMulS(g, One - hp.bias_m1))
\* Line 66: pow_ squares the gradient tensor itself.
GradAfter(g) == TPow2(g)
\* Line 65-66.
SecondMoment(v, g, hp) ==
    TAdd(TMulS(v, hp.bias_m2), TMulS(GradAfter(g), One - hp.bias_m2))
\* Lines 68-72: the correction divides the stored tensors.
Corrected(m, beta, t, hp) ==
    IF hp.bias_correction THEN TDivS(m, One - FPow(beta, t)) ELSE m
\* Line 77: sqrt_ in place on the second moment, divide_ in place on the first.
SecondStored(v) == TSqrt(v)
FirstStored(m, v, hp) == TDiv(m, TAddS(SecondStored(v), hp.epsilon))
\* Line 76: the tensor added to param.data.
Update(m, hp) == TMulS(m, 0 - hp.stepsize)

Event(p, init, m, v, g, what) ==
    [param |-> p, init |-> init, fmeRead |-> m, smeRead |-> v,
     gradBefore |-> g, outcome |-> what]
Logged(o, ev, raised) ==
    [o EXCEPT !.log = Append(@, ev), !.raised = raised]

\* Lines 47-77 for one parameter p of a group with hyperparameters hp.
ProcParam(o, p, hp) ==
    LET g == o.grad[p]
        t == o.state.step
    IN
    IF HasNoGrad(g)
    THEN Logged(o, Event(p, FALSE, NoTensor, NoTensor, g, "AttributeError"),
                "AttributeError")
    ELSE
    LET init == IsFirstStep(t)
        m0 == IF init THEN Zeros(Len(o.data[p])) ELSE o.state.first_moment_estimate
        v0 == IF init THEN Zeros(Len(o.data[p])) ELSE o.state.second_moment_estimate
        h == o.hist[p]
        o1 == [o EXCEPT
                !.state.first_moment_estimate = m0,
                !.state.second_moment_estimate = v0,
                !.hist[p] =
                    [inits |-> h.inits + (IF init THEN 1 ELSE 0),
                     reads |-> h.reads + 1,
                     updates |-> h.updates,
                     firstFme |-> IF h.reads = 0 THEN m0 ELSE h.firstFme,
                     firstSme |-> IF h.reads = 0 THEN v0 ELSE h.firstSme]]
    IN
    IF m0 = NoTensor
    THEN \* line 63: the empty dict has no mul_
         Logged(o1, Event(p, init, m0, v0, g, "AttributeError"), "AttributeError")
    ELSE IF ~Fits(m0, g)
    THEN \* line 63: add_ cannot broadcast the gradient; mul_ is done
         Logged([o1 EXCEPT !.state.first_moment_estimate = FirstMomentScaled(m0, hp)],
                Event(p, init, m0, v0, g, "RuntimeError"), "RuntimeError")
    ELSE
    LET m1 == Corrected(FirstMoment(m0, g, hp), hp.bias_m1, t, hp)
        v1 == Corrected(SecondMoment(v0, g, hp), hp.bias_m2, t, hp)
        m2 == FirstStored(m1, v1, hp)
        v2 == SecondStored(v1)
        o2 == [o1 EXCEPT
                !.state.first_moment_estimate = m2,
                !.state.second_moment_estimate = v2,
                !.grad[p] = GradAfter(g)]
    IN
    IF ~Fits(o.data[p], m2)
    THEN \* line 76: add_ cannot broadcast the update to the parameter
         Logged(o2, Event(p, init, m0, v0, g, "RuntimeError"), "RuntimeError")
    ELSE Logged([o2 EXCEPT !.data[p] = TAdd(@, Update(m2, hp)),
                           !.hist[p].updates = @ + 1],
                Event(p, init, m0, v0, g, "updated"), "none")

RECURSIVE ProcParams(_, _, _)
\* Line 47: the parameters of one group, until one raises.
ProcParams(o, ps, hp) ==
    IF ps = << >> \/ o.raised # "none" THEN o
    ELSE ProcParams(ProcParam(o, Head(ps), hp), Tail(ps), hp)

RECURSIVE ProcGroups(_, _)
\* Line 45: the groups in order, until a parameter raises.
ProcGroups(o, groups) ==
    IF groups = << >> \/ o.raised # "none" THEN o
    ELSE ProcGroups(ProcParams(o, Head(groups).params, Head(groups).hp),
                    Tail(groups))

\* Lines 40-77: the counter, then the loop.
StepOpt(o, groups) ==
    ProcGroups([o EXCEPT !.state.step = IncStep(@), !.log = << >>,
                         !.raised = "none"], groups)
\* Line 79: what the call hands back; nothing when it raised.
Returned(o, loss) == IF o.raised = "none" THEN loss ELSE NoTensor

\* ---- the optimizer holding parameter 1 alone, in parameter 1's group
RECURSIVE GroupOf(_, _)
GroupOf(groups, p) ==
    IF p \in Range(Head(groups).params) THEN Head(groups)
    ELSE GroupOf(Tail(groups), p)
SoloGroups(groups) == << [params |-> <<1>>, hp |-> GroupOf(groups, 1).hp] >>

\* ------------------------------------------------------------ actions
Init ==
    /\ pc = "new"
    /\ args = NoArgs
    /\ defaults = NoOverrides
    /\ param_groups = << >>
    /\ opt = NewOpt({})
    /\ calls = 0
    /\ last = NoCall
    /\ solo = NewOpt({})

\* CustomAdam(params, stepsize, bias_m1, bias_m2, epsilon, bias_correction)
Construct ==
    /\ pc = "new"
    /\ \E a \in CtorArgs, list \in ParamLists :
        /\ args' = a
        /\ IF InvalidStepsize(a) \/ InvalidBias(a)
           THEN /\ pc' = "invalid"
                /\ UNCHANGED <<defaults, param_groups, opt, solo>>
           ELSE /\ pc' = "ready"
                /\ defaults' = MakeDefaults(a)
                /\ param_groups' = MakeGroups(list, MakeDefaults(a))
                /\ opt' = NewOpt(Range(ParamsOf(list)))
                /\ solo' = NewOpt({1})
    /\ UNCHANGED <<calls, last>>

\* The training loop writes the gradients between two step() calls.
Backward ==
    /\ pc = "ready"
    /\ calls < MaxSteps
    /\ \E p \in DOMAIN opt.grad : \E g \in Grads(Shape(p)) :
        /\ g # opt.grad[p]
        /\ opt' = [opt EXCEPT !.grad[p] = g]
        /\ solo' = IF p = 1 THEN [solo EXCEPT !.grad[1] = g] ELSE solo
    /\ UNCHANGED <<pc, args, defaults, param_groups, calls, last>>

\* optimizer.step(closure)
Step ==
    /\ pc = "ready"
    /\ calls < MaxSteps
    /\ \E closure \in Closures :
        LET loss == Loss(closure)
            after == StepOpt(opt, param_groups)
        IN /\ opt' = after
           /\ last' = [closure |-> closure,
                       closureCalls |-> IF closure.given THEN 1 ELSE 0,
                       seenStep |-> opt.state.step,
                       seenData |-> opt.data,
                       before |-> opt,
                       gradAfter |-> after.grad,
                       ret |-> Returned(after, loss)]
    /\ solo' = StepOpt(solo, SoloGroups(param_groups))
    /\ calls' = calls + 1
    /\ UNCHANGED <<pc, args, defaults, param_groups>>

Next == Construct \/ Backward \/ Step

Spec == Init /\ [][Next]_vars

\* ------------------------------------------------------------- claims
Stepped == pc = "ready" /\ calls > 0
Before == last.before
AllParams == DOMAIN opt.data
HadGrad(p) == ~HasNoGrad(Before.grad[p])
WasUpdated(p) ==
    \E i \in DOMAIN opt.log :
        opt.log[i].param = p /\ opt.log[i].outcome = "updated"
HyperOf(p) == GroupOf(param_groups, p).hp

\* C1: a step() call with a parameter that has no gradient completes
\* normally, leaves that parameter unchanged, allocates no moment state for
\* it, and still updates the parameters that have gradients.
C1_MissingGradientSkipped ==
    Stepped =>
        \A p \in AllParams :
            ~HadGrad(p) =>
                /\ opt.raised = "none"
                /\ opt.data[p] = Before.data[p]
                /\ opt.hist[p] = Before.hist[p]
                /\ \A q \in AllParams : HadGrad(q) => WasUpdated(q)

C3_StepCounterCountsCalls ==
    pc = "ready" => opt.state.step = calls
\* Two calls, the last of which raised on a parameter without gradient.
C3_Witness ==
    /\ pc = "ready"
    /\ calls = 2
    /\ opt.state.step = 2
    /\ opt.raised = "AttributeError"
    /\ \E p \in AllParams : ~HadGrad(p)

\* The value the update formula gives parameter p for gradient g on the first
\* step without bias correction:
\* p - step_size * ((1 - b1) * g) / (sqrt((1 - b2) * g^2) + epsilon).
FirstStepValue(p, g, hp) ==
    TAdd(p,
         TMulS(TDiv(TMulS(g, One - hp.bias_m1),
                    TAddS(TSqrt(TMulS(TPow2(g), One - hp.bias_m2)), hp.epsilon)),
               0 - hp.stepsize))

\* C4: with bias_correction disabled, after the first step() call every
\* parameter with a gradient has the value of the update formula, with the
\* hyperparameters of its own group.
C4_FirstStepFormula ==
    (Stepped /\ calls = 1) =>
        \A p \in AllParams :
            (HadGrad(p) /\ ~HyperOf(p).bias_correction) =>
                opt.data[p] = FirstStepValue(Before.data[p], Before.grad[p], HyperOf(p))
\* The same, for the first calls that did not raise.
FirstStepFormulaWhenReturned ==
    (Stepped /\ calls = 1 /\ opt.raised = "none") =>
        \A p \in AllParams :
            (HadGrad(p) /\ ~HyperOf(p).bias_correction) =>
                opt.data[p] = FirstStepValue(Before.data[p], Before.grad[p], HyperOf(p))

\* C5: step(closure) calls the closure once, before the counter and the
\* parameters change, and returns its value; step() returns None and performs
\* the full update.
C5_ClosureAndReturn ==
    Stepped =>
        /\ opt.raised = "none"
        /\ \A q \in AllParams : HadGrad(q) => WasUpdated(q)
        /\ last.closure.given =>
              /\ last.closureCalls = 1
              /\ last.seenStep = opt.state.step - 1
              /\ last.seenData = Before.data
              /\ last.ret = last.closure.loss
        /\ ~last.closure.given =>
              /\ last.closureCalls = 0
              /\ last.ret = NoTensor
\* The same, for the calls that did not raise.
ClosureAndReturnWhenReturned ==
    (Stepped /\ opt.raised = "none") =>
        /\ \A q \in AllParams : HadGrad(q) => WasUpdated(q)
        /\ last.closure.given =>
              /\ last.closureCalls = 1
              /\ last.seenStep = opt.state.step - 1
              /\ last.seenData = Before.data
              /\ last.ret = last.closure.loss
        /\ ~last.closure.given =>
              /\ last.closureCalls = 0
              /\ last.ret = NoTensor

\* C6: the moment tensors step() reads and updates for a parameter have the
\* shape of that parameter, on every step.
C6_MomentShape ==
    Stepped =>
        \A i \in DOMAIN opt.log :
            opt.log[i].fmeRead # NoTensor =>
                /\ Len(opt.log[i].fmeRead) = Len(opt.data[opt.log[i].param])
                /\ Len(opt.log[i].smeRead) = Len(opt.data[opt.log[i].param])

\* C7: step() leaves every gradient tensor as it was before the call.
C7_GradientUnchanged ==
    Stepped => last.gradAfter = Before.grad

\* The moment estimates of one step from the stored m, v and the gradient g:
\* b1 * m + (1 - b1) * g and b2 * v + (1 - b2) * g^2, each divided by
\* 1 - b^t under bias correction.
EstimateM(m, g, hp, t) ==
    LET e == TAdd(TMulS(m, hp.bias_m1), TMulS(g, One - hp.bias_m1))
    IN IF hp.bias_correction THEN TDivS(e, One - FPow(hp.bias_m1, t)) ELSE e
EstimateV(v, g, hp, t) ==
    LET e == TAdd(TMulS(v, hp.bias_m2), TMulS(TPow2(g), One - hp.bias_m2))
    IN IF hp.bias_correction THEN TDivS(e, One - FPow(hp.bias_m2, t)) ELSE e
StoredBefore(m, p) == IF calls = 1 THEN Zeros(Len(opt.data[p])) ELSE m

\* C8: for a single parameter, the moment state stored at the end of a step
\* is the moment estimate itself, computed from the state stored at the end
\* of the previous step; the parameter update does not change it.
C8_StoredMomentIsEstimate ==
    (Stepped /\ AllParams = {1} /\ WasUpdated(1)) =>
        /\ opt.state.first_moment_estimate =
              EstimateM(StoredBefore(Before.state.first_moment_estimate, 1),
                        Before.grad[1], HyperOf(1), calls)
        /\ opt.state.second_moment_estimate =
              EstimateV(StoredBefore(Before.state.second_moment_estimate, 1),
                        Before.grad[1], HyperOf(1), calls)

\* C9: the value of parameter 1 after every step is the value it has in the
\* optimizer that holds parameter 1 alone and sees the same gradients: the
\* other parameters do not change its trajectory.
C9_TrajectoryIndependent ==
    pc = "ready" => opt.data[1] = solo.data[1]

\* The same, for the runs in which every call updated every parameter.
TrajectoryIndependentWhenAllUpdated ==
    (pc = "ready" /\ \A p \in AllParams : opt.hist[p].updates = calls) =>
        opt.data[1] = solo.data[1]

\* C10: the first step() that gets to update a parameter starts from an
\* all-zero moment state of that parameter's shape, and the state is set to
\* zero exactly once for that parameter.
C10_ZeroInitialisedOnce ==
    pc = "ready" =>
        \A p \in AllParams :
            opt.hist[p].reads > 0 =>
                /\ opt.hist[p].firstFme = Zeros(Len(opt.data[p]))
                /\ opt.hist[p].firstSme = Zeros(Len(opt.data[p]))
                /\ opt.hist[p].inits = 1

====
